---- MODULE Spec2Model ----
(***************************************************************************)
(* State-machine model of pcsx2/IPC.cpp: the SocketIPC constructor, the    *)
(* worker (ExecuteTaskInThread), the command dispatcher (ParseCommand) and *)
(* the destructor.                                                         *)
(*                                                                         *)
(* Buffers are functions over 0..capacity-1 so that every index is the     *)
(* index the C++ code uses.  Variables marked "ghost" are not fields of    *)
(* the program: they record what the program did (memory primitives        *)
(* invoked, request indices read, bytes handed to the transport) so that   *)
(* properties about it can be stated.                                      *)
(*                                                                         *)
(* A byte the program reads without anything having determined it (storage *)
(* that new char[] returned and nothing wrote, storage that delete[]       *)
(* released, memory past the end of a buffer) is held as Indet.  A read   *)
(* that the control flow depends on (the tag, the count, an opcode) may    *)
(* find any of the 256 byte values there, anew at each read; a read whose  *)
(* result is only data (an address, a value, a reply byte) carries Indet   *)
(* along.                                                                  *)
(***************************************************************************)
EXTENDS Integers, Sequences, FiniteSets, TLC

\* ------------------------------------------------------------------ bounds
\* Capacity of the request buffer (MAX_IPC_SIZE of IPC.h, scaled down).
MAX_IPC_SIZE == 20
\* Capacity of the reply buffer (MAX_IPC_RETURN_SIZE of IPC.h, scaled down).
MAX_IPC_RETURN_SIZE == 10
\* Number of connections the worker accepts before the model stops it.
MaxConn == 2
\* Largest batch count a client of the model puts in a MultiCommand header.
MaxBatch == 3

\* ------------------------------------------- protocol constants (IPC.h)
MsgRead8 == 0
MsgRead16 == 1
MsgRead32 == 2
MsgRead64 == 3
MsgWrite8 == 4
MsgWrite16 == 5
MsgWrite32 == 6
MsgWrite64 == 7
MsgMultiCommand == 255
IPC_OK == 0
IPC_FAIL == 255

Byte == 0..255
\* A byte whose value nothing in the program determines.
Indet == 0 - 1
\* What a read of the byte b may find.
Values(b) == IF b = Indet THEN Byte ELSE {b}
ReadOps == {MsgRead8, MsgRead16, MsgRead32, MsgRead64}
WriteOps == {MsgWrite8, MsgWrite16, MsgWrite32, MsgWrite64}
ValidOps == ReadOps \cup WriteOps

Min(a, b) == IF a < b THEN a ELSE b

\* An unsigned integer of w bytes is held as the number it is, written in
\* base 256: its w digits, the most significant first, so that <<1, 2>> is
\* the u16 258 (a u32 or u64 does not fit the integers of TLC).  A buffer
\* holds bytes in the order of their offsets.
\* FromArray<T>(arr, i) decodes the w bytes at arr[i]: the byte at the
\* lowest offset is the least significant digit of the result.
FromArray(arr, i, w) == [k \in 1..w |-> arr[i + w - k]]

\* Mutant of ToArray: the most significant digit goes to the lowest offset.
ToArrayBigEndian(res_array, res, i, w) ==
    [x \in DOMAIN res_array |->
        IF x >= i /\ x < i + w THEN res[x - i + 1] ELSE res_array[x]]

\* ToArray(res_array, res, i) encodes res into the w bytes at res_array[i]:
\* the least significant digit goes to the lowest offset.
ToArray(res_array, res, i, w) ==
    [x \in DOMAIN res_array |->
        IF x >= i /\ x < i + w THEN res[w - (x - i)] ELSE res_array[x]]

\* The number a u16 held as two digits stands for.
U16(d) == 256 * d[1] + d[2]

\* No dispatch runs BatchCap sub-commands: each one that passes its checks
\* takes at least 5 bytes of the request buffer.
BatchCap == MAX_IPC_SIZE \div 5 + 1
\* The values "batch" may take from the count digits d.  Determined digits
\* give their number.  Digits that are not determined give every u16; the
\* loop only compares batch with i < BatchCap, so the counts from BatchCap
\* on are held as BatchCap.
CountValues(d) ==
    IF d[1] # Indet /\ d[2] # Indet THEN {U16(d)}
    ELSE {Min(256 * hi + lo, BatchCap) : hi \in Values(d[1]), lo \in Values(d[2])}

\* Mutant of SafetyChecks: the reply buffer is not checked.
SafetyChecksRequestOnly(command_len, command_size, reply_len, reply_size) ==
    ~(command_len + command_size > MAX_IPC_SIZE)

\* Mutant of SafetyChecks: a sub-command that would fill a buffer to its
\* last byte is refused.
SafetyChecksStrict(command_len, command_size, reply_len, reply_size) ==
    ~(\/ command_len + command_size >= MAX_IPC_SIZE
      \/ reply_len + reply_size >= MAX_IPC_RETURN_SIZE)

\* SafetyChecks(command_len, command_size, reply_len, reply_size): TRUE when
\* the sub-command fits the request buffer and its result the reply buffer.
SafetyChecks(command_len, command_size, reply_len, reply_size) ==
    ~(\/ command_len + command_size > MAX_IPC_SIZE
      \/ reply_len + reply_size > MAX_IPC_RETURN_SIZE)

\* ------------------------------------- memory access facade (Memory.h)
\* The emulated memory is a flat byte-addressed space of 2^32 bytes.  mem
\* holds the bytes that have been written or preset; every other byte is 0.
\* An address is a u32, held as four digits.  The memory is little-endian:
\* the byte at the lowest address of a value is its least significant digit.

\* An address with a digit that is not determined: some address.
Wild(a) == \E k \in DOMAIN a : a[k] = Indet
\* The entry of mem that stands for a write at some address.
WildAddr == <<Indet, Indet, Indet, Indet>>
\* Some bytes of m, no telling which, have been written: m holds the bytes
\* written since, and no other byte is determined.
Havoc(m) == WildAddr \in DOMAIN m

\* One byte of the emulated memory.
MemByte(m, a) ==
    IF a \in DOMAIN m THEN m[a] ELSE IF Havoc(m) THEN Indet ELSE 0

\* a + k modulo 2^32, for a small k.
AddrPlus(a, k) ==
    LET s4 == a[4] + k
        s3 == a[3] + (s4 \div 256)
        s2 == a[2] + (s3 \div 256)
        s1 == a[1] + (s2 \div 256)
    IN  <<s1 % 256, s2 % 256, s3 % 256, s4 % 256>>

\* memRead8/16/32/64: the value whose w bytes lie at a .. a + w - 1.
\* The bytes read at some address are not determined.
memRead(m, a, w) ==
    IF Wild(a) THEN [k \in 1..w |-> Indet]
    ELSE [k \in 1..w |-> MemByte(m, AddrPlus(a, w - k))]

\* memWrite8/16/32/64: the w bytes of v go to a .. a + w - 1.
memWrite(m, a, v, w) ==
    IF Wild(a) THEN [x \in {WildAddr} |-> Indet]
    ELSE
    LET cells == {AddrPlus(a, k) : k \in 0..(w - 1)}
    IN  [x \in DOMAIN m \cup cells |->
            IF x \in cells
            THEN v[w - (CHOOSE k \in 0..(w - 1) : AddrPlus(a, k) = x)]
            ELSE m[x]]

\* ----------------------------------------- ParseCommand's per-case numbers
\* Second argument of the case's SafetyChecks call (request bytes needed).
CommandSize(op) ==
    CASE op = MsgRead8 -> 5 [] op = MsgRead16 -> 5
      [] op = MsgRead32 -> 5 [] op = MsgRead64 -> 5
      [] op = MsgWrite8 -> 6 [] op = MsgWrite16 -> 7
      [] op = MsgWrite32 -> 9 [] op = MsgWrite64 -> 13

\* Fourth argument of the case's SafetyChecks call (reply bytes needed; the
\* write cases leave it to its default, 0).
ReplySize(op) ==
    CASE op = MsgRead8 -> 1 [] op = MsgRead16 -> 2
      [] op = MsgRead32 -> 4 [] op = MsgRead64 -> 8
      [] OTHER -> 0

\* Width in bytes of the case's memory primitive and of its res / value type.
AccessWidth(op) ==
    CASE op \in {MsgRead8, MsgWrite8} -> 1 [] op \in {MsgRead16, MsgWrite16} -> 2
      [] op \in {MsgRead32, MsgWrite32} -> 4 [] op \in {MsgRead64, MsgWrite64} -> 8

\* Mutant of RetAdvance: every read case advances ret_cnt by one.
RetAdvanceOne(op) == IF op \in {MsgRead8, MsgRead16, MsgRead32, MsgRead64} THEN 1 ELSE 0

\* The case's "ret_cnt += ..." (the write cases have none).
RetAdvance(op) ==
    CASE op = MsgRead8 -> 1 [] op = MsgRead16 -> 2
      [] op = MsgRead32 -> 4 [] op = MsgRead64 -> 8
      [] OTHER -> 0

\* Mutant of BufAdvance: the write cases advance past the address only.
BufAdvanceFive(op) == IF op \in {MsgRead8, MsgRead16, MsgRead32, MsgRead64} THEN 5 ELSE 4 + 1

\* The case's "buf_cnt += ...".
BufAdvance(op) ==
    CASE op = MsgRead8 -> 5 [] op = MsgRead16 -> 5
      [] op = MsgRead32 -> 5 [] op = MsgRead64 -> 5
      [] op = MsgWrite8 -> 6 [] op = MsgWrite16 -> 7
      [] op = MsgWrite32 -> 9 [] op = MsgWrite64 -> 13

\* "buf_cnt += 3" after the MultiCommand tag and its 16-bit count.
HeaderSize == 3
\* FromArray<u16>(&buf[buf_cnt], 1): offset of the batch count.
CountOffset == 1
\* FromArray<u32>(&buf[buf_cnt], 1): offset of the address in a sub-command.
AddrOffset == 1
\* FromArray<uN>(&buf[buf_cnt], 5): offset of a write's value.
ValueOffset == 5

\* MakeOkIPC / MakeFailIPC: store the status in byte 0 of the reply buffer.
MakeOkIPC(ret_buffer) == [ret_buffer EXCEPT ![0] = IPC_OK]
MakeFailIPC(ret_buffer) == [ret_buffer EXCEPT ![0] = IPC_FAIL]

\* ------------------------------------------------------------------ state
VARIABLES
    pc,            \* position of the worker in ExecuteTaskInThread/ParseCommand
    m_end,         \* the loop's end flag
    m_msgsock,     \* per-connection socket: 0 unset, -1 accept failed, else fd
    m_ipc_buffer,  \* request buffer, 0..MAX_IPC_SIZE-1
    m_ret_buffer,  \* reply buffer, 0..MAX_IPC_RETURN_SIZE-1
    mem,           \* emulated memory (bytes written or preset)
    batch, ret_cnt, buf_cnt, i,   \* locals of ParseCommand
    res_size,      \* size field of the IPCBuffer ParseCommand returned
    conn,          \* number of connections accepted so far
    open,          \* ghost: per-connection sockets currently open
    err,           \* ghost: platform and errno of the last failed accept
    nread,         \* ghost: return value of this connection's read (-2: none yet)
    vm_active,     \* ghost: HasActiveMachine()'s answer: "unasked", "yes", "no"
    ops,           \* ghost: memory primitives invoked by this dispatch, in order
    touched,       \* ghost: request-buffer indices this dispatch has read
    mem0,          \* ghost: the memory when this dispatch began
    live,          \* ghost: writes not overlapped by a later write
    cnt,           \* ghost: reads / dispatches / reply writes of this connection
    sent,          \* ghost: bytes handed to write_portable for this connection
    dpc,           \* position of the owning thread in ~SocketIPC ("idle": not begun)
    m_sock,        \* the listening socket: "open" or "closed"
    freed,         \* which of the two buffers delete[] has released
    late,          \* ghost: has a loop turn begun, and accepted, after ~SocketIPC set m_end
    stale,         \* ghost: leading request-buffer bytes earlier connections wrote
    acc_sock       \* m_sock as it was when the worker came to its accept call

vars == <<pc, m_end, m_msgsock, m_ipc_buffer, m_ret_buffer, mem, batch, ret_cnt,
          buf_cnt, i, res_size, conn, open, err, nread, vm_active, ops, touched,
          mem0, live, cnt, sent, dpc, m_sock, freed, late, stale, acc_sock>>

bufvars == <<m_ipc_buffer, m_ret_buffer, mem>>
locals == <<batch, ret_cnt, buf_cnt, i, res_size>>
ghosts == <<nread, vm_active, ops, touched, mem0, cnt, sent>>
tdvars == <<dpc, m_sock, freed>>
hist == <<late, stale, acc_sock>>

NoCount == [reads |-> 0, dispatches |-> 0, writes |-> 0]

\* ------------------------------------------------------- the clients' input
\* n little-endian bytes of v, as a client puts them on the wire.
RECURSIVE LEBytes(_, _)
LEBytes(v, n) == IF n = 0 THEN <<>> ELSE <<v % 256>> \o LEBytes(v \div 256, n - 1)
\* The n base-256 digits of v, most significant first.
RECURSIVE Digits(_, _)
Digits(v, n) == IF n = 0 THEN <<>> ELSE Digits(v \div 256, n - 1) \o <<v % 256>>

\* Value bytes the model's clients write (a Write-N carries the first N/8).
ValBytes == <<5, 6, 7, 8, 9, 10, 11, 12>>
\* Addresses the model's clients name (the cells of wider accesses overlap).
Addrs == {16, 17}
\* An opcode byte no IPCCommand uses.
BadOp == 254

RdCmd(op, a) == <<op>> \o LEBytes(a, 4)
WrCmd(op, a) == <<op>> \o LEBytes(a, 4) \o SubSeq(ValBytes, 1, AccessWidth(op))
Hdr(c) == <<MsgMultiCommand>> \o LEBytes(c, 2)
HdrPad(c, pad) == Hdr(c) \o <<pad>>

RdCmds == {RdCmd(op, a) : op \in ReadOps, a \in Addrs}
WrCmds == {WrCmd(op, a) : op \in WriteOps, a \in Addrs}
Cmds == RdCmds \cup WrCmds \cup {<<BadOp>>, <<MsgMultiCommand>>}
\* The sub-commands of the three-command batches.
FewCmds == {RdCmd(MsgRead8, 16), RdCmd(MsgRead64, 16), WrCmd(MsgWrite8, 17), <<BadOp>>}
Pads == {0, 254}

Bodies ==
    {<<>>} \cup Cmds \cup {c1 \o c2 : c1 \in Cmds, c2 \in Cmds}
    \cup {c1 \o c2 \o c3 : c1 \in FewCmds, c2 \in FewCmds, c3 \in FewCmds}
Headers ==
    {<<>>} \cup {Hdr(c) : c \in 0..MaxBatch}
    \cup {HdrPad(c, pad) : c \in 0..MaxBatch, pad \in Pads}

\* A batch of three whose last byte is the last byte of the request buffer
\* and whose results end on the last byte of the reply buffer.
ExactFill ==
    Hdr(3) \o RdCmd(MsgRead8, 16) \o RdCmd(MsgRead64, 16) \o WrCmd(MsgWrite16, 17)

\* What one connection may deliver in SpecBatch.
BatchRequests == {h \o b : h \in Headers, b \in Bodies} \cup {ExactFill}

\* What one connection may deliver in Spec.
Requests ==
    {<<>>, <<BadOp>>, Hdr(0), Hdr(MaxBatch) \o RdCmd(MsgRead8, 16)}
    \cup {RdCmd(op, a) : op \in ReadOps, a \in Addrs}
    \cup {WrCmd(op, 16) : op \in WriteOps}
    \cup {Hdr(2) \o WrCmd(MsgWrite8 + k, 16) \o RdCmd(MsgRead8 + k, 16) : k \in 0..3}
    \cup {WrCmd(MsgWrite8, 17),
          Hdr(2) \o RdCmd(MsgRead8, 16) \o WrCmd(MsgWrite8, 17),
          HdrPad(2, 0) \o RdCmd(MsgRead8, 16) \o WrCmd(MsgWrite8, 17),
          Hdr(2) \o WrCmd(MsgWrite16, 16) \o <<BadOp>>}

\* A buffer of n bytes that new char[] returned and nothing has written
\* yet, or that delete[] has released: none of its bytes is determined.
Fresh(n) == [x \in 0..(n - 1) |-> Indet]
\* Contents of the emulated memory when the worker starts.
InitMems == {[a \in {} |-> 0], [a \in {Digits(x, 4) : x \in 16..19} |-> 160 + a[4]]}

\* A buffer pointer that nothing has set yet.
Unset == <<>>

\* ------------------------------------------------------------------- Init
\* The constructor.  Either it reached Start(): the worker exists and has
\* not run its first statement, and the listening socket is open.  Or
\* socket() or bind() failed and it returned before Start(): there is no
\* worker, and the listening socket is open (bind failed) or was never
\* obtained (held as "closed").  The constructor sets neither m_end nor
\* m_msgsock nor the two buffer pointers.
Init ==
    /\ \/ pc = "start" /\ m_sock = "open"
       \/ pc = "unstarted" /\ m_sock \in {"open", "closed"}
    /\ m_end \in BOOLEAN
    /\ m_msgsock = 0
    /\ m_ipc_buffer = Unset
    /\ m_ret_buffer = Unset
    /\ mem \in InitMems
    /\ batch = 0 /\ ret_cnt = 0 /\ buf_cnt = 0 /\ i = 0 /\ res_size = 0
    /\ conn = 0
    /\ open = {}
    /\ err = <<"none", "none">>
    /\ nread = -2
    /\ vm_active = "unasked"
    /\ ops = <<>>
    /\ touched = {}
    /\ mem0 = mem
    /\ live = {}
    /\ cnt = NoCount
    /\ sent = <<>>
    /\ dpc = "idle"
    /\ freed = {}
    /\ late = "no"
    /\ stale = 0
    /\ acc_sock = m_sock

\* ------------------------------------------------------- ghost bookkeeping
\* The wire format of the protocol is little-endian.  The number the wire
\* bytes b stand for, as digits ...
WireNum(b) == [k \in 1..Len(b) |-> b[Len(b) + 1 - k]]
\* ... and the wire bytes of the number with the digits v.
WireBytes(v) == [k \in 1..Len(v) |-> v[Len(v) + 1 - k]]

Cells(a, w) == {AddrPlus(a, k) : k \in 0..(w - 1)}

\* The request bytes of the live write of width w to a, or <<>> if none.
LiveRaw(lv, a, w) ==
    IF ~Wild(a) /\ \E r \in lv : r.a = a /\ r.w = w
    THEN (CHOOSE r \in lv : r.a = a /\ r.w = w).raw
    ELSE <<>>

\* lv after a write of width w to a whose value bytes in the request were raw.
\* A write at some address may overlap any of them.
LiveAfter(lv, a, w, raw) ==
    IF Wild(a) THEN {}
    ELSE {r \in lv : Cells(r.a, r.w) \cap Cells(a, w) = {}}
         \cup {[a |-> a, w |-> w, raw |-> raw]}

\* The bytes arr[from..from+n-1] as a sequence.
Slice(arr, from, n) == [k \in 1..n |-> arr[from + k - 1]]

\* ------------------------------------------- ExecuteTaskInThread (worker)
Platforms == {"posix", "win32"}
Errnos == {"ECONNABORTED", "ECONNRESET", "EINTR", "EINPROGRESS", "EAGAIN",
           "EWOULDBLOCK", "EMFILE", "EBADF"}

\* The allow-list of the accept error test, per build.
Recoverable(platform, e) ==
    IF platform = "win32"
    THEN e \in {"ECONNRESET", "EINTR", "EINPROGRESS", "EMFILE", "EWOULDBLOCK"}
    ELSE e \in {"ECONNABORTED", "EINTR", "EAGAIN", "EWOULDBLOCK"}

\* m_end = false;
ThreadEntry ==
    /\ pc = "start"
    /\ m_end' = FALSE
    /\ pc' = "new_ret"
    /\ UNCHANGED <<m_msgsock, bufvars, locals, conn, open, err, ghosts, live>>
    /\ UNCHANGED <<tdvars, hist>>

\* m_ret_buffer = new char[MAX_IPC_RETURN_SIZE];
NewRetBuffer ==
    /\ pc = "new_ret"
    /\ m_ret_buffer' = Fresh(MAX_IPC_RETURN_SIZE)
    /\ pc' = "new_ipc"
    /\ UNCHANGED <<m_end, m_msgsock, m_ipc_buffer, mem, locals, conn, open, err,
                   ghosts, live>>
    /\ UNCHANGED <<tdvars, hist>>

\* m_ipc_buffer = new char[MAX_IPC_SIZE]; then the first turn of while (true).
NewIpcBuffer ==
    /\ pc = "new_ipc"
    /\ m_ipc_buffer' = Fresh(MAX_IPC_SIZE)
    /\ pc' = "accept"
    /\ UNCHANGED <<m_end, m_msgsock, m_ret_buffer, mem, locals, conn, open, err,
                   ghosts, live>>
    /\ late' = (IF dpc # "idle" /\ late = "no" THEN "top" ELSE late)
    /\ acc_sock' = m_sock
    /\ UNCHANGED <<tdvars, stale>>

Startup == ThreadEntry \/ NewRetBuffer \/ NewIpcBuffer

\* m_msgsock = accept(m_sock, 0, 0) returns a new socket.  A call that was
\* made while m_sock was open keeps waiting on it when the destructor closes
\* the descriptor, and still returns the connection of a client that was
\* queued or arrives.  The model follows the first MaxConn connections: no
\* client connects after them.
AcceptOk ==
    /\ pc = "accept"
    /\ conn < MaxConn
    /\ acc_sock = "open"
    /\ conn' = conn + 1
    /\ m_msgsock' = conn + 1
    /\ open' = open \cup {conn + 1}
    /\ pc' = "read"
    /\ UNCHANGED <<m_end, bufvars, locals, err, ghosts, live>>
    /\ late' = (IF late = "top" THEN "accepted" ELSE late)
    /\ UNCHANGED <<tdvars, stale, acc_sock>>

\* accept fails with an error of the allow-list: fall through to the close.
\* A call that was made while m_sock was open may still end by timeout or
\* interruption after the destructor closed the descriptor.
AcceptRecoverable ==
    /\ pc = "accept"
    /\ acc_sock = "open"
    /\ \E p \in Platforms, e \in Errnos :
          /\ Recoverable(p, e)
          /\ err' = <<p, e>>
    /\ m_msgsock' = -1
    /\ pc' = "close"
    /\ UNCHANGED <<m_end, bufvars, locals, conn, open, ghosts, live>>
    /\ late' = (IF late = "top" THEN "accepted" ELSE late)
    /\ UNCHANGED <<tdvars, stale, acc_sock>>

\* accept fails with any other error: m_end = true; break.  The error is
\* that of the call: a call made on a listening socket that had been closed
\* fails with the bad-descriptor one; a call made while it was open fails
\* with any of them, also when the destructor has closed the socket since.
AcceptFatal ==
    /\ pc = "accept"
    /\ \E p \in Platforms, e \in Errnos :
          /\ ~Recoverable(p, e)
          /\ acc_sock = "closed" => e = "EBADF"
          /\ err' = <<p, e>>
    /\ m_msgsock' = -1
    /\ m_end' = TRUE
    /\ pc' = "stopped"
    /\ UNCHANGED <<bufvars, locals, conn, open, ghosts, live>>
    /\ late' = (IF late = "top" THEN "accepted" ELSE late)
    /\ UNCHANGED <<tdvars, stale, acc_sock>>

\* read_portable(m_msgsock, m_ipc_buffer, MAX_IPC_SIZE) >= 0: the first
\* n <= MAX_IPC_SIZE bytes of the buffer are replaced, the rest is kept.
\* A read under way when the destructor closes m_msgsock still delivers what
\* the client sends.
ReadOk(reqs) ==
    /\ pc = "read"
    /\ \E req \in reqs :
          LET n == Min(Len(req), MAX_IPC_SIZE)
          IN  /\ m_ipc_buffer' =
                    [x \in DOMAIN m_ipc_buffer |->
                        IF x < n THEN req[x + 1] ELSE m_ipc_buffer[x]]
              /\ nread' = n
    /\ cnt' = [cnt EXCEPT !.reads = @ + 1]
    /\ pc' = "parse"
    /\ UNCHANGED <<m_end, m_msgsock, m_ret_buffer, mem, locals, conn, open, err,
                   vm_active, ops, touched, mem0, live, sent>>
    /\ UNCHANGED <<tdvars, hist>>

\* read_portable(...) < 0: ParseCommand and the reply are skipped.
ReadFail ==
    /\ pc = "read"
    /\ nread' = -1
    /\ cnt' = [cnt EXCEPT !.reads = @ + 1]
    /\ pc' = "close"
    /\ UNCHANGED <<m_end, m_msgsock, bufvars, locals, conn, open, err,
                   vm_active, ops, touched, mem0, live, sent>>
    /\ UNCHANGED <<tdvars, hist>>

\* write_portable(m_msgsock, res.buffer, res.size); its result is ignored.
WriteReply ==
    /\ pc = "write"
    /\ sent' = Slice(m_ret_buffer, 0, res_size)
    /\ cnt' = [cnt EXCEPT !.writes = @ + 1]
    /\ pc' = "close"
    /\ UNCHANGED <<m_end, m_msgsock, bufvars, locals, conn, open, err, nread,
                   vm_active, ops, touched, mem0, live>>
    /\ UNCHANGED <<tdvars, hist>>

\* write_portable is write(2) on the POSIX build: when the client has closed
\* its end, the write raises SIGPIPE, whose disposition nothing in the file
\* changes, and the process ends there: its descriptors, the listening
\* socket among them, are closed with it, and none of its threads takes
\* another step.
WritePipe ==
    /\ pc = "write"
    /\ sent' = Slice(m_ret_buffer, 0, res_size)
    /\ cnt' = [cnt EXCEPT !.writes = @ + 1]
    /\ open' = {}
    /\ m_sock' = "closed"
    /\ pc' = "killed"
    /\ UNCHANGED <<m_end, m_msgsock, bufvars, locals, conn, err, nread,
                   vm_active, ops, touched, mem0, live>>
    /\ UNCHANGED <<dpc, freed, hist>>

\* close_portable(m_msgsock), then the next turn of while (true).
CloseConn ==
    /\ pc = "close"
    /\ open' = open \ {m_msgsock}
    /\ pc' = "accept"
    /\ batch' = 0 /\ ret_cnt' = 0 /\ buf_cnt' = 0 /\ i' = 0 /\ res_size' = 0
    /\ err' = <<"none", "none">>
    /\ nread' = -2
    /\ vm_active' = "unasked"
    /\ ops' = <<>>
    /\ touched' = {}
    /\ mem0' = mem
    /\ cnt' = NoCount
    /\ sent' = <<>>
    /\ UNCHANGED <<m_end, m_msgsock, bufvars, conn, live>>
    /\ late' = (IF dpc # "idle" /\ late = "no" THEN "top" ELSE late)
    /\ stale' = (IF nread > stale THEN nread ELSE stale)
    /\ acc_sock' = m_sock
    /\ UNCHANGED tdvars

\* ------------------------------------------------------------ ParseCommand
\* Furthest a sub-command reaches past its opcode (the value of a Write64).
MaxReach == 12

\* buf as ParseCommand's pointer sees it: the buffer, then whatever lies
\* after it in memory.
Ext(buf) ==
    [x \in 0..(MAX_IPC_SIZE + MaxReach) |-> IF x < MAX_IPC_SIZE THEN buf[x] ELSE Indet]

\* Mutant of ParseInactive: the inactive machine is noticed but the early
\* return is missing, so the request is parsed all the same.
ParseInactiveNoReturn ==
    /\ pc = "parse"
    /\ vm_active' = "no"
    /\ batch' = 1 /\ buf_cnt' = 0 /\ ret_cnt' = 1 /\ i' = 0
    /\ touched' = {0}
    /\ cnt' = [cnt EXCEPT !.dispatches = @ + 1]
    /\ pc' = "loop"
    /\ UNCHANGED <<m_end, m_msgsock, bufvars, res_size, conn, open, err, nread,
                   ops, mem0, live, sent>>
    /\ UNCHANGED <<tdvars, hist>>

\* if (!m_vm->HasActiveMachine()) return IPCBuffer{1, MakeFailIPC(ret_buffer)};
ParseInactive ==
    /\ pc = "parse"
    /\ vm_active' = "no"
    /\ m_ret_buffer' = MakeFailIPC(m_ret_buffer)
    /\ res_size' = 1
    /\ cnt' = [cnt EXCEPT !.dispatches = @ + 1]
    /\ pc' = "write"
    /\ UNCHANGED <<m_end, m_msgsock, m_ipc_buffer, mem, batch, ret_cnt, buf_cnt, i,
                   conn, open, err, nread, ops, touched, mem0, live, sent>>
    /\ UNCHANGED <<tdvars, hist>>

\* Mutant of ParseHeader: the loop body runs once before the count is
\* tested, so a count of 0 behaves as 1.
ParseHeaderAtLeastOne ==
    /\ pc = "parse"
    /\ vm_active' = "yes"
    /\ \E tag \in Values(m_ipc_buffer[0]) :
          IF tag = MsgMultiCommand
          THEN /\ \E c \in CountValues(FromArray(m_ipc_buffer, CountOffset, 2)) :
                     batch' = (IF c = 0 THEN 1 ELSE c)
               /\ buf_cnt' = HeaderSize
               /\ touched' = {0} \cup (CountOffset..(CountOffset + 1))
          ELSE /\ batch' = 1
               /\ buf_cnt' = 0
               /\ touched' = {0}
    /\ ret_cnt' = 1
    /\ i' = 0
    /\ mem0' = mem
    /\ cnt' = [cnt EXCEPT !.dispatches = @ + 1]
    /\ pc' = "loop"
    /\ UNCHANGED <<m_end, m_msgsock, bufvars, res_size, conn, open, err, nread,
                   ops, live, sent>>
    /\ UNCHANGED <<tdvars, hist>>

\* batch = 1, ret_cnt = 1, buf_cnt = 0, and the MultiCommand header if
\* buf[0] is its tag.
ParseHeader ==
    /\ pc = "parse"
    /\ vm_active' = "yes"
    /\ \E tag \in Values(m_ipc_buffer[0]) :
          IF tag = MsgMultiCommand
          THEN /\ batch' \in CountValues(FromArray(m_ipc_buffer, CountOffset, 2))
               /\ buf_cnt' = HeaderSize
               /\ touched' = {0} \cup (CountOffset..(CountOffset + 1))
          ELSE /\ batch' = 1
               /\ buf_cnt' = 0
               /\ touched' = {0}
    /\ ret_cnt' = 1
    /\ i' = 0
    /\ mem0' = mem
    /\ cnt' = [cnt EXCEPT !.dispatches = @ + 1]
    /\ pc' = "loop"
    /\ UNCHANGED <<m_end, m_msgsock, bufvars, res_size, conn, open, err, nread,
                   ops, live, sent>>
    /\ UNCHANGED <<tdvars, hist>>

\* Indices every iteration reads: the opcode and the 4-byte address.
HeadIdx == buf_cnt..(buf_cnt + AddrOffset + 3)

\* case MsgRead8 / 16 / 32 / 64 with SafetyChecks passed.
CmdRead ==
    /\ pc = "loop"
    /\ i < batch
    /\ \E op \in Values(Ext(m_ipc_buffer)[buf_cnt]) :
          LET buf == Ext(m_ipc_buffer)
              a == FromArray(buf, buf_cnt + AddrOffset, 4)
          IN  /\ op \in ReadOps
              /\ SafetyChecks(buf_cnt, CommandSize(op), ret_cnt, ReplySize(op))
              /\ LET w == AccessWidth(op)
                     res == memRead(mem, a, w)
                 IN  /\ m_ret_buffer' = ToArray(m_ret_buffer, res, ret_cnt, w)
                     /\ ops' = Append(ops, [kind |-> "read", w |-> w, a |-> a,
                                            v |-> res,
                                            raw |-> LiveRaw(live, WireNum(Slice(buf, buf_cnt + 1, 4)), w)])
              /\ ret_cnt' = ret_cnt + RetAdvance(op)
              /\ buf_cnt' = buf_cnt + BufAdvance(op)
    /\ touched' = touched \cup HeadIdx
    /\ i' = i + 1
    /\ UNCHANGED <<pc, m_end, m_msgsock, m_ipc_buffer, mem, batch, res_size, conn,
                   open, err, nread, vm_active, mem0, live, cnt, sent>>
    /\ UNCHANGED <<tdvars, hist>>

\* case MsgWrite8 / 16 / 32 / 64 with SafetyChecks passed.
CmdWrite ==
    /\ pc = "loop"
    /\ i < batch
    /\ \E op \in Values(Ext(m_ipc_buffer)[buf_cnt]) :
          LET buf == Ext(m_ipc_buffer)
              a == FromArray(buf, buf_cnt + AddrOffset, 4)
          IN  /\ op \in WriteOps
              /\ SafetyChecks(buf_cnt, CommandSize(op), ret_cnt, ReplySize(op))
              /\ LET w == AccessWidth(op)
                     v == FromArray(buf, buf_cnt + ValueOffset, w)
                     raw == Slice(buf, buf_cnt + 1 + 4, w)
                 IN  /\ mem' = memWrite(mem, a, v, w)
                     /\ ops' = Append(ops, [kind |-> "write", w |-> w, a |-> a,
                                            v |-> v, raw |-> raw])
                     /\ live' = LiveAfter(live, WireNum(Slice(buf, buf_cnt + 1, 4)), w, raw)
                     /\ touched' = touched \cup HeadIdx
                            \cup ((buf_cnt + ValueOffset)..(buf_cnt + ValueOffset + w - 1))
              /\ buf_cnt' = buf_cnt + BufAdvance(op)
    /\ i' = i + 1
    /\ UNCHANGED <<pc, m_end, m_msgsock, m_ipc_buffer, m_ret_buffer, batch, ret_cnt,
                   res_size, conn, open, err, nread, vm_active, mem0, cnt, sent>>
    /\ UNCHANGED <<tdvars, hist>>

\* Mutant of CmdUnsafe: the abort undoes the writes of the batch.
CmdUnsafeRollback ==
    /\ pc = "loop"
    /\ i < batch
    /\ {op \in Values(Ext(m_ipc_buffer)[buf_cnt]) \cap ValidOps :
            ~SafetyChecks(buf_cnt, CommandSize(op), ret_cnt, ReplySize(op))} # {}
    /\ m_ret_buffer' = MakeFailIPC(m_ret_buffer)
    /\ res_size' = 1
    /\ mem' = mem0
    /\ touched' = touched \cup HeadIdx
    /\ pc' = "write"
    /\ UNCHANGED <<m_end, m_msgsock, m_ipc_buffer, batch, ret_cnt, buf_cnt, i,
                   conn, open, err, nread, vm_active, ops, mem0, live, cnt, sent>>
    /\ UNCHANGED <<tdvars, hist>>

\* Mutant of CmdUnsafe: the failure reply keeps the length reached so far.
CmdUnsafePartial ==
    /\ pc = "loop"
    /\ i < batch
    /\ {op \in Values(Ext(m_ipc_buffer)[buf_cnt]) \cap ValidOps :
            ~SafetyChecks(buf_cnt, CommandSize(op), ret_cnt, ReplySize(op))} # {}
    /\ m_ret_buffer' = MakeFailIPC(m_ret_buffer)
    /\ res_size' = ret_cnt
    /\ touched' = touched \cup HeadIdx
    /\ pc' = "write"
    /\ UNCHANGED <<m_end, m_msgsock, m_ipc_buffer, mem, batch, ret_cnt, buf_cnt, i,
                   conn, open, err, nread, vm_active, ops, mem0, live, cnt, sent>>
    /\ UNCHANGED <<tdvars, hist>>

\* A case whose SafetyChecks failed: goto error.
CmdUnsafe ==
    /\ pc = "loop"
    /\ i < batch
    /\ {op \in Values(Ext(m_ipc_buffer)[buf_cnt]) \cap ValidOps :
            ~SafetyChecks(buf_cnt, CommandSize(op), ret_cnt, ReplySize(op))} # {}
    /\ m_ret_buffer' = MakeFailIPC(m_ret_buffer)
    /\ res_size' = 1
    /\ touched' = touched \cup HeadIdx
    /\ pc' = "write"
    /\ UNCHANGED <<m_end, m_msgsock, m_ipc_buffer, mem, batch, ret_cnt, buf_cnt, i,
                   conn, open, err, nread, vm_active, ops, mem0, live, cnt, sent>>
    /\ UNCHANGED <<tdvars, hist>>

\* Mutant of CmdInvalid: the default case skips the byte instead of
\* returning.
CmdInvalidSkip ==
    /\ pc = "loop"
    /\ i < batch
    /\ Values(Ext(m_ipc_buffer)[buf_cnt]) \ ValidOps # {}
    /\ touched' = touched \cup HeadIdx
    /\ buf_cnt' = buf_cnt + 1
    /\ i' = i + 1
    /\ UNCHANGED <<pc, m_end, m_msgsock, bufvars, batch, ret_cnt, res_size,
                   conn, open, err, nread, vm_active, ops, mem0, live, cnt, sent>>
    /\ UNCHANGED <<tdvars, hist>>

\* Mutant of CmdInvalid: a MultiCommand tag in opcode position opens a
\* nested batch; any other unknown opcode fails as before.
CmdInvalidNested ==
    /\ pc = "loop"
    /\ i < batch
    /\ \E op \in Values(Ext(m_ipc_buffer)[buf_cnt]) :
          LET buf == Ext(m_ipc_buffer)
          IN  /\ op \notin ValidOps
              /\ IF op = MsgMultiCommand
                 THEN /\ batch' \in CountValues(FromArray(buf, buf_cnt + 1, 2))
                      /\ buf_cnt' = buf_cnt + 3
                      /\ i' = 0
                      /\ UNCHANGED <<pc, m_ret_buffer, res_size>>
                 ELSE /\ m_ret_buffer' = MakeFailIPC(m_ret_buffer)
                      /\ res_size' = 1
                      /\ pc' = "write"
                      /\ UNCHANGED <<batch, buf_cnt, i>>
    /\ touched' = touched \cup HeadIdx
    /\ UNCHANGED <<m_end, m_msgsock, m_ipc_buffer, mem, ret_cnt,
                   conn, open, err, nread, vm_active, ops, mem0, live, cnt, sent>>
    /\ UNCHANGED <<tdvars, hist>>

\* default: return IPCBuffer{1, MakeFailIPC(ret_buffer)}.
CmdInvalid ==
    /\ pc = "loop"
    /\ i < batch
    /\ Values(Ext(m_ipc_buffer)[buf_cnt]) \ ValidOps # {}
    /\ m_ret_buffer' = MakeFailIPC(m_ret_buffer)
    /\ res_size' = 1
    /\ touched' = touched \cup HeadIdx
    /\ pc' = "write"
    /\ UNCHANGED <<m_end, m_msgsock, m_ipc_buffer, mem, batch, ret_cnt, buf_cnt, i,
                   conn, open, err, nread, vm_active, ops, mem0, live, cnt, sent>>
    /\ UNCHANGED <<tdvars, hist>>

\* After the loop: return IPCBuffer{(int)ret_cnt, MakeOkIPC(ret_buffer)}.
ParseDone ==
    /\ pc = "loop"
    /\ i >= batch
    /\ m_ret_buffer' = MakeOkIPC(m_ret_buffer)
    /\ res_size' = ret_cnt
    /\ pc' = "write"
    /\ UNCHANGED <<m_end, m_msgsock, m_ipc_buffer, mem, batch, ret_cnt, buf_cnt, i,
                   conn, open, err, nread, vm_active, ops, touched, mem0, live, cnt,
                   sent>>
    /\ UNCHANGED <<tdvars, hist>>

\* ------------------------------------------------------------- ~SocketIPC
\* The destructor runs on the owning thread at any time after the
\* constructor, whatever the worker is at; each of its statements is one step.
\* The process has not been ended by a signal.
Running == pc \notin {"killed", "crashed"}

\* m_end = true;
DtorSetEnd ==
    /\ Running
    /\ dpc = "idle"
    /\ m_end' = TRUE
    /\ dpc' = "end_set"
    /\ UNCHANGED <<pc, m_msgsock, bufvars, locals, conn, open, err, ghosts, live,
                   m_sock, freed, hist>>

\* WSACleanup() / unlink(SOCKET_NAME); close_portable(m_sock);
DtorCloseSock ==
    /\ Running
    /\ dpc = "end_set"
    /\ m_sock' = "closed"
    /\ dpc' = "sock_closed"
    /\ UNCHANGED <<pc, m_end, m_msgsock, bufvars, locals, conn, open, err, ghosts,
                   live, freed, hist>>

\* close_portable(m_msgsock);
DtorCloseMsgsock ==
    /\ Running
    /\ dpc = "sock_closed"
    /\ open' = open \ {m_msgsock}
    /\ dpc' = "msgsock_closed"
    /\ UNCHANGED <<pc, m_end, m_msgsock, bufvars, locals, conn, err, ghosts, live,
                   m_sock, freed, hist>>

\* delete[] of the buffer pointer p, the destructor going on to dpc = next.
\* When the worker has set p, its storage is released.  When nothing has set
\* p (the worker has not come to its new char[], or was never started), the
\* delete[] is of a pointer that is not determined: it goes through with
\* nothing released, or it faults, which ends the process, its descriptors
\* closed with it.
DtorFree(b, p, next) ==
    /\ Running
    /\ IF p # Unset
       THEN /\ freed' = freed \cup {b}
            /\ dpc' = next
            /\ UNCHANGED <<pc, open, m_sock>>
       ELSE \/ /\ dpc' = next
               /\ UNCHANGED <<pc, open, m_sock, freed>>
            \/ /\ pc' = "crashed"
               /\ open' = {}
               /\ m_sock' = "closed"
               /\ UNCHANGED <<dpc, freed>>
    /\ UNCHANGED <<m_end, m_msgsock, bufvars, locals, conn, err, ghosts, live, hist>>

\* delete[] m_ret_buffer;
DtorFreeRet ==
    /\ dpc = "msgsock_closed"
    /\ DtorFree("ret", m_ret_buffer, "ret_freed")

\* delete[] m_ipc_buffer;
DtorFreeIpc ==
    /\ dpc = "ret_freed"
    /\ DtorFree("ipc", m_ipc_buffer, "ipc_freed")

\* pxThread::Cancel(): the worker is stopped at its next blocking call
\* (accept, read, write, close); its first statements and a dispatch under
\* way run to their end first.  A worker that was never started or has left
\* its loop stays as it is.
DtorCancel ==
    /\ Running
    /\ dpc = "ipc_freed"
    /\ pc \notin {"start", "new_ret", "new_ipc", "parse", "loop"}
    /\ pc' = (IF pc \in {"unstarted", "stopped"} THEN pc ELSE "cancelled")
    /\ dpc' = "done"
    /\ UNCHANGED <<m_end, m_msgsock, bufvars, locals, conn, open, err, ghosts, live,
                   m_sock, freed, hist>>

Teardown ==
    \/ DtorSetEnd \/ DtorCloseSock \/ DtorCloseMsgsock
    \/ DtorFreeRet \/ DtorFreeIpc \/ DtorCancel

\* The buffers the worker's current statement reads or writes.
BuffersInUse ==
    CASE pc = "read" -> {"ipc"}
      [] pc \in {"parse", "loop"} -> {"ipc", "ret"}
      [] pc = "write" -> {"ret"}
      [] OTHER -> {}

\* The worker is at a statement that uses a buffer delete[] has released.
UseAfterFree == BuffersInUse \cap freed # {}

\* What a use of released storage may do, besides going through as if the
\* storage were still the buffer's: fault, which ends the process, its
\* descriptors closed with it ...
WorkerFault ==
    /\ UseAfterFree
    /\ pc' = "crashed"
    /\ open' = {}
    /\ m_sock' = "closed"
    /\ UNCHANGED <<m_end, m_msgsock, bufvars, locals, conn, err, ghosts, live,
                   dpc, freed, hist>>

\* ... or find the storage rewritten by the allocator or its next owner: from
\* then on none of its bytes is determined.
HeapReuse ==
    /\ UseAfterFree
    /\ \E b \in freed :
          IF b = "ipc"
          THEN /\ m_ipc_buffer # Fresh(MAX_IPC_SIZE)
               /\ m_ipc_buffer' = Fresh(MAX_IPC_SIZE)
               /\ UNCHANGED m_ret_buffer
          ELSE /\ m_ret_buffer # Fresh(MAX_IPC_RETURN_SIZE)
               /\ m_ret_buffer' = Fresh(MAX_IPC_RETURN_SIZE)
               /\ UNCHANGED m_ipc_buffer
    /\ UNCHANGED <<pc, m_end, m_msgsock, mem, locals, conn, open, err, ghosts, live,
                   tdvars, hist>>

\* ------------------------------------------------------- specifications
Dispatch ==
    \/ ParseInactive \/ ParseHeader
    \/ CmdRead \/ CmdWrite \/ CmdUnsafe \/ CmdInvalid
    \/ ParseDone

Next ==
    \/ Startup
    \/ AcceptOk \/ AcceptRecoverable \/ AcceptFatal
    \/ ReadOk(Requests) \/ ReadFail
    \/ Dispatch
    \/ WriteReply \/ WritePipe \/ CloseConn

Spec == Init /\ [][Next]_vars

\* One exchange with a batch-rich client, begun in a state earlier connections
\* may have left: the model follows the last connection the worker accepts.
\* m_msgsock is the descriptor of the connection before it, closed by now;
\* what the earlier requests and replies left in the two buffers is not
\* determined.
InitBatch ==
    /\ pc = "accept"
    /\ m_end = FALSE
    /\ m_msgsock = IF MaxConn > 1 THEN MaxConn - 1 ELSE 0
    /\ m_ipc_buffer = Fresh(MAX_IPC_SIZE)
    /\ m_ret_buffer = Fresh(MAX_IPC_RETURN_SIZE)
    /\ mem \in InitMems
    /\ batch = 0 /\ ret_cnt = 0 /\ buf_cnt = 0 /\ i = 0 /\ res_size = 0
    /\ conn = MaxConn - 1
    /\ open = {}
    /\ err = <<"none", "none">>
    /\ nread = -2
    /\ vm_active = "unasked"
    /\ ops = <<>>
    /\ touched = {}
    /\ mem0 = mem
    /\ live = {}
    /\ cnt = NoCount
    /\ sent = <<>>
    /\ dpc = "idle"
    /\ m_sock = "open"
    /\ freed = {}
    /\ late = "no"
    /\ stale = 0
    /\ acc_sock = "open"

NextBatch ==
    \/ AcceptOk \/ AcceptRecoverable \/ AcceptFatal
    \/ ReadOk(BatchRequests) \/ ReadFail
    \/ Dispatch
    \/ WriteReply \/ WritePipe \/ CloseConn

SpecBatch == InitBatch /\ [][NextBatch]_vars

\* What one connection may deliver in SpecTeardown.
TeardownRequests ==
    {<<>>, RdCmd(MsgRead8, 16),
     Hdr(2) \o WrCmd(MsgWrite8, 17) \o RdCmd(MsgRead8, 17)}

\* The worker loop with the destructor running beside it.
NextTeardown ==
    \/ Startup
    \/ AcceptOk \/ AcceptRecoverable \/ AcceptFatal
    \/ ReadOk(TeardownRequests) \/ ReadFail
    \/ Dispatch
    \/ WriteReply \/ WritePipe \/ CloseConn
    \/ Teardown
    \/ WorkerFault \/ HeapReuse

SpecTeardown == Init /\ [][NextTeardown]_vars

\* ======================================================================
\* Reference reading of a request, by the layout the dispatcher gives it:
\* [MultiCommand(1) | count(2)]? (no pad byte, see C8) then count times
\* [opcode(1) | address(4) | value(N/8, writes only)], executed in order
\* until one is invalid or does not fit.  The claims below compare what the
\* worker did with this reading.  The reading is of the bytes of a request:
\* where it needs a byte that nothing determined, it stops and says so
\* (why = "indeterminate").
\* ======================================================================
WireWidth(op) ==
    CASE op \in {MsgRead8, MsgWrite8} -> 1 [] op \in {MsgRead16, MsgWrite16} -> 2
      [] op \in {MsgRead32, MsgWrite32} -> 4 [] OTHER -> 8
WireLen(op) == IF op \in WriteOps THEN 1 + 4 + WireWidth(op) ELSE 1 + 4

RefIsBatch(buf) == buf[0] = MsgMultiCommand
\* The tag and, in a batch, the count are determined.
RefKnownHead(buf) ==
    /\ buf[0] # Indet
    /\ RefIsBatch(buf) => (buf[1] # Indet /\ buf[2] # Indet)
RefBatch(buf) ==
    IF ~RefKnownHead(buf) THEN 0
    ELSE IF RefIsBatch(buf) THEN buf[1] + 256 * buf[2] ELSE 1
RefStart(buf) == IF RefIsBatch(buf) THEN 1 + 2 ELSE 0

\* The state of the reference before sub-command 0.
RefInit(buf, m) ==
    [ok |-> RefKnownHead(buf),
     why |-> IF RefKnownHead(buf) THEN "none" ELSE "indeterminate",
     k |-> 0, p |-> RefStart(buf), m |-> m, out |-> <<>>, cmds |-> <<>>]

\* One sub-command of the reference, at offset st.p.
RefNext(buf, st) ==
    IF st.p >= MAX_IPC_SIZE
    THEN [st EXCEPT !.ok = FALSE, !.why = "request"]
    ELSE
    LET op == buf[st.p]
        w == WireWidth(op)
    IN  IF op = Indet THEN [st EXCEPT !.ok = FALSE, !.why = "indeterminate"]
        ELSE IF op \notin ValidOps THEN [st EXCEPT !.ok = FALSE, !.why = "opcode"]
        ELSE IF st.p + WireLen(op) > MAX_IPC_SIZE
        THEN [st EXCEPT !.ok = FALSE, !.why = "request"]
        ELSE IF op \in ReadOps /\ 1 + Len(st.out) + w > MAX_IPC_RETURN_SIZE
        THEN [st EXCEPT !.ok = FALSE, !.why = "reply"]
        ELSE IF \E x \in (st.p + 1)..(st.p + WireLen(op) - 1) : buf[x] = Indet
        THEN [st EXCEPT !.ok = FALSE, !.why = "indeterminate"]
        ELSE
        LET a == WireNum(Slice(buf, st.p + 1, 4))
            val == IF op \in ReadOps THEN memRead(st.m, a, w)
                   ELSE WireNum(Slice(buf, st.p + 1 + 4, w))
        IN  [ok |-> TRUE, why |-> "none", k |-> st.k + 1, p |-> st.p + WireLen(op),
             m |-> IF op \in WriteOps THEN memWrite(st.m, a, val, w) ELSE st.m,
             out |-> IF op \in ReadOps THEN st.out \o WireBytes(val) ELSE st.out,
             cmds |-> Append(st.cmds,
                        [kind |-> IF op \in ReadOps THEN "read" ELSE "write",
                         w |-> w, a |-> a, v |-> val])]

RECURSIVE RefRun(_, _, _)
RefRun(buf, st, n) ==
    IF n <= 0 \/ ~st.ok THEN st ELSE RefRun(buf, RefNext(buf, st), n - 1)

\* The reference outcome of the request in buf on memory m: ok, or the
\* position k of the sub-command that failed and why; the memory and the
\* read results after the sub-commands before it.
Ref(buf, m) == RefRun(buf, RefInit(buf, m), RefBatch(buf))

\* The memory primitives the worker invoked, without the ghost field raw.
Invoked == [j \in 1..Len(ops) |->
               [kind |-> ops[j].kind, w |-> ops[j].w, a |-> ops[j].a, v |-> ops[j].v]]

\* ParseCommand has returned and its connection is not closed yet.
Returned == pc \in {"write", "close"} /\ cnt.dispatches = 1
Failed == Returned /\ m_ret_buffer[0] = IPC_FAIL /\ res_size = 1
Succeeded == Returned /\ m_ret_buffer[0] = IPC_OK /\ res_size >= 1
\* The bytes this connection delivered.
Received == IF nread > 0 THEN Slice(m_ipc_buffer, 0, nread) ELSE <<>>

\* ---------------------------------------------------------------- C1
\* C1: when HasActiveMachine() answers false, ParseCommand returns the
\* 1-byte reply IPC_FAIL, invokes no memory primitive, leaves the memory
\* alone and reads no byte of the request: its cursors are never set.
C1_InactiveFailsUnparsed ==
    vm_active = "no" =>
        /\ pc \in {"write", "close", "killed"}
        /\ res_size = 1
        /\ m_ret_buffer[0] = IPC_FAIL
        /\ ops = <<>>
        /\ mem = mem0
        /\ touched = {}
        /\ buf_cnt = 0 /\ ret_cnt = 0 /\ i = 0
        /\ pc \in {"close", "killed"} => sent = <<IPC_FAIL>>

\* A well-formed Write32 arrived while no machine was active.
C1_Witness ==
    /\ vm_active = "no"
    /\ pc = "close"
    /\ Received = WrCmd(MsgWrite32, 16)
    /\ sent = <<IPC_FAIL>>

\* ---------------------------------------------------------------- C2
\* Position of the first sub-command of the batch whose opcode byte is no
\* Read8..Write64, by the wire format alone; -1 if there is none among the
\* n sub-commands that lie in the request buffer, or if an opcode byte
\* before it is not determined.
RECURSIVE BadPos(_, _, _, _)
BadPos(buf, p, k, n) ==
    IF k >= n \/ p >= MAX_IPC_SIZE THEN -1
    ELSE IF buf[p] = Indet THEN -1
    ELSE IF buf[p] \notin ValidOps THEN k
    ELSE IF p + WireLen(buf[p]) > MAX_IPC_SIZE THEN -1
    ELSE BadPos(buf, p + WireLen(buf[p]), k + 1, n)

FirstBad == BadPos(m_ipc_buffer, RefStart(m_ipc_buffer), 0, RefBatch(m_ipc_buffer))

\* C2 as stated: an invalid opcode at position k gives the 1-byte failure
\* reply, and exactly the sub-commands at positions < k have been invoked.
C2_Original ==
    (Returned /\ vm_active = "yes" /\ FirstBad >= 0) =>
        /\ Failed
        /\ Len(ops) = FirstBad

\* C2 (amended): an invalid opcode at position k gives the 1-byte failure
\* reply and nothing at a position >= k is invoked; the sub-commands before
\* k are invoked once each, in order, up to the first that fails its bounds
\* check, hence all of them when none does.
C2_InvalidOpcodeAborts ==
    (Returned /\ vm_active = "yes" /\ FirstBad >= 0) =>
        LET ref == Ref(m_ipc_buffer, mem0)
        IN  /\ Failed
            /\ pc = "close" => sent = <<IPC_FAIL>>
            /\ Invoked = ref.cmds
            /\ i = ref.k
            /\ Len(ops) = i
            /\ i <= FirstBad
            /\ i < FirstBad => ref.why = "reply"
            /\ ref.why = "opcode" => i = FirstBad

\* A write and a read were invoked, then the third opcode was invalid.
C2_Witness ==
    /\ Failed
    /\ vm_active = "yes"
    /\ FirstBad = 2
    /\ Len(ops) = 2
    /\ ops[1].kind = "write"
    /\ ops[2].kind = "read"

\* ---------------------------------------------------------------- C3
\* m after the write sub-commands among the first k sub-commands from
\* offset p, applied in request order.
RECURSIVE WritesBefore(_, _, _, _)
WritesBefore(buf, m, p, k) ==
    IF k = 0 THEN m
    ELSE LET op == buf[p]
             w == WireWidth(op)
         IN  WritesBefore(buf,
                 IF op \in WriteOps
                 THEN memWrite(m, WireNum(Slice(buf, p + 1, 4)),
                               WireNum(Slice(buf, p + 1 + 4, w)), w)
                 ELSE m,
                 p + WireLen(op), k - 1)

\* m after the writes among the first n primitives the dispatch invoked.
RECURSIVE WritesInvoked(_, _)
WritesInvoked(m, n) ==
    IF n = 0 THEN m
    ELSE LET before == WritesInvoked(m, n - 1)
         IN  IF ops[n].kind = "write"
             THEN memWrite(before, ops[n].a, ops[n].v, ops[n].w)
             ELSE before

\* C3: when the dispatch aborts at sub-command k (= i), the memory is the
\* memory the dispatch began with plus exactly the writes at positions < k:
\* every write that was invoked stays applied, and they are the writes of
\* the request before k.
C3_NoRollback ==
    (Failed /\ vm_active = "yes") =>
        /\ mem = WritesInvoked(mem0, Len(ops))
        /\ Ref(m_ipc_buffer, mem0).why # "indeterminate" =>
              mem = WritesBefore(m_ipc_buffer, mem0, RefStart(m_ipc_buffer), i)

\* A write was applied, then a later read overflowed the reply buffer.
C3_Witness ==
    /\ Failed
    /\ vm_active = "yes"
    /\ i = 2
    /\ ops[1].kind = "write"
    /\ mem # mem0
    /\ Ref(m_ipc_buffer, mem0).why = "reply"

\* ---------------------------------------------------------------- C4
\* The declared batch needs a sub-command byte at an offset >= n: walking
\* cnt sub-commands from offset p, an opcode, address or value byte of one
\* of them lies at or after n.
RECURSIVE NeedsPast(_, _, _, _, _)
NeedsPast(buf, n, p, k, c) ==
    IF k = c THEN FALSE
    ELSE IF p >= n THEN TRUE
    ELSE IF buf[p] \notin ValidOps THEN FALSE
    ELSE IF p + WireLen(buf[p]) > n THEN TRUE
    ELSE NeedsPast(buf, n, p + WireLen(buf[p]), k + 1, c)

ShortRequest ==
    IF nread = 0 THEN TRUE
    ELSE IF RefIsBatch(m_ipc_buffer) /\ nread < 1 + 2 THEN TRUE
    ELSE NeedsPast(m_ipc_buffer, nread, RefStart(m_ipc_buffer), 0,
                   RefBatch(m_ipc_buffer))

\* C4: a connection delivered n bytes and its declared batch needs a byte at
\* an offset >= n: the dispatch returns the 1-byte failure reply and reads
\* no request byte at an offset >= n.
C4_ShortRequestFails ==
    (Returned /\ vm_active = "yes" /\ ShortRequest) =>
        /\ Failed
        /\ \A x \in touched : x < nread

\* ---------------------------------------------------------------- C5
RECURSIVE SumWidths(_, _, _)
\* Reply bytes of the first k sub-commands of an all-read batch from offset s.
SumWidths(buf, s, k) ==
    IF k = 0 THEN 0
    ELSE SumWidths(buf, s, k - 1) + WireWidth(buf[s + (1 + 4) * (k - 1)])

\* The request buffer holds a batch whose sub-commands are all reads.
AllReads ==
    LET n == RefBatch(m_ipc_buffer)
        s == RefStart(m_ipc_buffer)
    IN  /\ n >= 1
        /\ s + (1 + 4) * n <= MAX_IPC_SIZE
        /\ \A j \in 0..(n - 1) : m_ipc_buffer[s + (1 + 4) * j] \in ReadOps

ReadsTotal ==
    1 + SumWidths(m_ipc_buffer, RefStart(m_ipc_buffer), RefBatch(m_ipc_buffer))

\* The first read whose result does not fit after those before it.
FirstOverflow ==
    CHOOSE k \in 0..(RefBatch(m_ipc_buffer) - 1) :
        /\ 1 + SumWidths(m_ipc_buffer, RefStart(m_ipc_buffer), k) <= MAX_IPC_RETURN_SIZE
        /\ 1 + SumWidths(m_ipc_buffer, RefStart(m_ipc_buffer), k + 1) > MAX_IPC_RETURN_SIZE

\* C5: a batch of reads whose results together exceed the reply capacity
\* fails at the first read k with ret_cnt + width(k) > capacity: the reads
\* before k have been invoked, k and the later ones have not, and the reply
\* is the 1-byte failure.
C5_ReplyOverflowAtFirst ==
    (Returned /\ vm_active = "yes" /\ AllReads /\ ReadsTotal > MAX_IPC_RETURN_SIZE) =>
        LET s == RefStart(m_ipc_buffer)
            k == FirstOverflow
        IN  /\ Failed
            /\ pc = "close" => sent = <<IPC_FAIL>>
            /\ i = k
            /\ Len(ops) = k
            /\ ret_cnt = 1 + SumWidths(m_ipc_buffer, s, k)
            /\ ret_cnt + WireWidth(m_ipc_buffer[s + (1 + 4) * k]) > MAX_IPC_RETURN_SIZE
            /\ \A j \in 1..k :
                  /\ ops[j].kind = "read"
                  /\ ops[j].w = WireWidth(m_ipc_buffer[s + (1 + 4) * (j - 1)])
                  /\ ops[j].a = WireNum(Slice(m_ipc_buffer, s + (1 + 4) * (j - 1) + 1, 4))

\* Two reads filled the reply buffer to the last byte; the third overflowed.
C5_Witness ==
    /\ Failed
    /\ vm_active = "yes"
    /\ AllReads
    /\ ReadsTotal > MAX_IPC_RETURN_SIZE
    /\ i = 2
    /\ Len(ops) = 2
    /\ ret_cnt + 1 > MAX_IPC_RETURN_SIZE

\* ---------------------------------------------------------------- C6
\* Offset in the reply of the result of the j-th invoked primitive.
RECURSIVE ReplyOffset(_)
ReplyOffset(j) ==
    IF j = 1 THEN 1
    ELSE ReplyOffset(j - 1) + (IF ops[j - 1].kind = "read" THEN ops[j - 1].w ELSE 0)

\* C6: a Read-W of A after a Write-W of V to A (same batch or an earlier
\* connection, no overlapping write in between) reads the number V that the
\* write's value bytes stand for in the byte order of the wire, and replies
\* with the bytes that stand for V in that same byte order, which are the
\* very value bytes the write's request carried; a lone Read-W request of
\* such an A succeeds with status OK and exactly those bytes.
C6_WriteReadRoundTrip ==
    /\ Succeeded =>
          \A j \in 1..Len(ops) :
              (ops[j].kind = "read" /\ ops[j].raw # <<>>) =>
                  /\ ops[j].v = WireNum(ops[j].raw)
                  /\ ReplyOffset(j) + ops[j].w <= res_size
                  /\ Slice(m_ret_buffer, ReplyOffset(j), ops[j].w) = ops[j].raw
    /\ \A op \in ReadOps, a \in Addrs :
          (/\ Returned /\ vm_active = "yes"
           /\ Received = RdCmd(op, a)
           /\ LiveRaw(live, Digits(a, 4), WireWidth(op)) # <<>>) =>
              /\ Succeeded
              /\ res_size = 1 + WireWidth(op)
              /\ Len(ops) = 1
              /\ ops[1].v = WireNum(LiveRaw(live, Digits(a, 4), WireWidth(op)))
              /\ Slice(m_ret_buffer, 1, WireWidth(op))
                    = LiveRaw(live, Digits(a, 4), WireWidth(op))
              /\ pc = "close" =>
                    sent = <<IPC_OK>> \o LiveRaw(live, Digits(a, 4), WireWidth(op))

\* A Read32 on the second connection read the number 0x08070605 that the
\* first one wrote as the bytes 05 06 07 08, and replied with those bytes.
C6_Witness ==
    /\ conn = 2
    /\ pc = "close"
    /\ Received = RdCmd(MsgRead32, 16)
    /\ LiveRaw(live, Digits(16, 4), 4) = <<5, 6, 7, 8>>
    /\ Len(ops) = 1
    /\ ops[1].v = <<8, 7, 6, 5>>
    /\ sent = <<IPC_OK, 5, 6, 7, 8>>

\* ---------------------------------------------------------------- C7
\* C7: when every sub-command of the batch is valid and fits, the reply is
\* IPC_OK followed by the results of the reads in request order, each as the
\* memory held it when that read ran; its length is 1 plus the widths of the
\* reads; writes add nothing to it.
C7_SuccessReply ==
    (Returned /\ vm_active = "yes") =>
        LET ref == Ref(m_ipc_buffer, mem0)
        IN  ref.ok =>
              /\ Succeeded
              /\ res_size = 1 + Len(ref.out)
              /\ Slice(m_ret_buffer, 1, Len(ref.out)) = ref.out
              /\ Invoked = ref.cmds
              /\ mem = ref.m
              /\ pc = "close" => sent = <<IPC_OK>> \o ref.out

\* A Read16 after a Write16 to the same address, in one batch, returned the
\* value just written, not what the memory held before.
C7_Witness ==
    /\ Succeeded
    /\ pc = "close"
    /\ Len(ops) = 2
    /\ ops[1].kind = "write" /\ ops[1].w = 2
    /\ ops[2].kind = "read" /\ ops[2].w = 2
    /\ ops[2].a = ops[1].a
    /\ ops[2].v # memRead(mem0, ops[2].a, 2)
    /\ sent = <<IPC_OK>> \o WireBytes(ops[1].v)

\* ---------------------------------------------------------------- C8
\* The two sub-commands of the scenario: Read8 of 0x10, Write8 of 0x05 to 0x11.
ScenarioBody == RdCmd(MsgRead8, 16) \o WrCmd(MsgWrite8, 17)
ScenarioDone ==
    /\ Succeeded
    /\ res_size = 2
    /\ Invoked = << [kind |-> "read", w |-> 1, a |-> Digits(16, 4),
                     v |-> memRead(mem0, Digits(16, 4), 1)],
                    [kind |-> "write", w |-> 1, a |-> Digits(17, 4), v |-> <<5>>] >>
    /\ m_ret_buffer[1] = MemByte(mem0, Digits(16, 4))
    /\ mem = memWrite(mem0, Digits(17, 4), <<5>>, 1)

\* C8: the request [MultiCommand, count = 2, pad][Read8, 0x10][Write8, 0x11,
\* 0x05], whatever the value of the pad byte after the count, replies OK
\* with 2 bytes after exactly one Read8 of 0x10 and one Write8 of 0x05 to
\* 0x11.
C8_PadByteIgnored ==
    \A pad \in Pads :
        (Returned /\ vm_active = "yes" /\ Received = HdrPad(2, pad) \o ScenarioBody)
            => ScenarioDone

\* ---------------------------------------------------------------- C9
\* C9: ParseCommand returns either IPC_OK with a length >= 1 or IPC_FAIL
\* with length exactly 1; whatever made it fail (inactive machine, invalid
\* opcode, request or reply bounds), the bytes handed to the transport are
\* the single byte IPC_FAIL, without any read result produced before.
C9_TwoOutcomes ==
    /\ Returned => (Succeeded \/ Failed)
    /\ (/\ Returned
        /\ \/ vm_active = "no"
           \/ Ref(m_ipc_buffer, mem0).why \in {"opcode", "request", "reply"}) => Failed
    /\ (pc = "close" /\ cnt.writes = 1) =>
          \/ sent = <<IPC_FAIL>>
          \/ Len(sent) >= 1 /\ sent[1] = IPC_OK /\ ~Failed

\* A read put its result in the reply buffer, then an invalid opcode made
\* the dispatch fail: only the status byte was handed to the transport.
C9_Witness ==
    /\ pc = "close"
    /\ vm_active = "yes"
    /\ Ref(m_ipc_buffer, mem0).why = "opcode"
    /\ Len(ops) = 1
    /\ ops[1].kind = "read"
    /\ m_ret_buffer[1] = 176
    /\ sent = <<IPC_FAIL>>

\* --------------------------------------------------------------- C10
\* C10: per accepted connection there is one read; ParseCommand is invoked
\* once if the read succeeded (also with 0 bytes) and never if it failed;
\* the reply is written at most once and only after a dispatch; whether the
\* read failed or not, and whatever the write did, the connection is then
\* closed and the loop is back at accept.
C10_OneExchange ==
    [][ /\ cnt'.reads <= 1 /\ cnt'.dispatches <= 1 /\ cnt'.writes <= 1
        /\ cnt'.dispatches = 1 => (cnt'.reads = 1 /\ nread' >= 0)
        /\ cnt'.writes = 1 => cnt'.dispatches = 1
        /\ (pc' = "close" /\ m_msgsock' > 0) =>
              /\ cnt'.reads = 1
              /\ cnt'.dispatches = (IF nread' >= 0 THEN 1 ELSE 0)
              /\ cnt'.writes = cnt'.dispatches
              /\ nread' < 0 => sent' = <<>>
        /\ pc = "read" => pc' \in {"parse", "close"}
        /\ pc = "write" => pc' = "close"
        /\ pc = "close" =>
              /\ pc' = "accept"
              /\ open' = {}
              /\ m_end' = FALSE
      ]_vars

\* --------------------------------------------------------------- C11
\* C11: every accepted connection is closed before the next accept is
\* issued, whatever its read, dispatch and write did: no step leads from an
\* exchange to accept but the close, an accept returns a connection only
\* when none is open, at most one per-connection socket is open at any
\* time, and no accepted connection is left open when the worker is at
\* accept or has ended.
C11_ClosedBeforeNextAccept ==
    [][ /\ Cardinality(open') <= 1
        /\ open' \subseteq {m_msgsock'}
        /\ pc' \in {"accept", "stopped", "cancelled"} => open' = {}
        /\ conn' # conn => (pc = "accept" /\ open = {} /\ open' = {conn'})
        /\ (pc \in {"read", "parse", "loop", "write"}) => pc' # "accept"
        /\ (pc = "close" /\ pc' = "accept") => m_msgsock \notin open'
      ]_vars

\* --------------------------------------------------------------- C12
\* The conditions the allow-list is said to hold, as accept reports them on
\* each build: a connection aborted by the peer before the accept
\* (ECONNABORTED, on win32 WSAECONNRESET), an interrupted call, a call that
\* would block, and too many open files.
Transient(platform, e) ==
    IF platform = "win32"
    THEN e \in {"ECONNRESET", "EINTR", "EWOULDBLOCK", "EMFILE"}
    ELSE e \in {"ECONNABORTED", "EINTR", "EAGAIN", "EWOULDBLOCK", "EMFILE"}

\* C12: the loop stops only on an accept failure (destruction apart); an
\* accept failure with a transient error (connection aborted, interrupted,
\* would-block, too-many-files) leaves the loop running, on its way to the
\* close and the next accept; no step of an exchange stops the loop.
C12_StopsOnlyOnFatalAccept ==
    [][ /\ (pc' \in {"stopped", "killed"} /\ pc' # pc) =>
              (pc = "accept" /\ m_msgsock' = -1 /\ err' # <<"none", "none">>)
        /\ (pc = "accept" /\ m_msgsock' = -1 /\ Transient(err'[1], err'[2])) =>
              (pc' = "close" /\ m_end' = FALSE)
        /\ (pc \in {"read", "parse", "loop", "write", "close"}) =>
              (pc' \notin {"stopped", "killed"} /\ m_end' = m_end)
      ]_vars

\* --------------------------------------------------------------- C13
\* C13: once the owner has set the end flag, the worker sees it at the top
\* of its loop: a loop turn that begins with the flag set issues no accept,
\* and a read or dispatch under way is not cut short.
C13_EndFlagSeenAtLoopTop ==
    [][ /\ late = "top" => late' # "accepted"
        /\ (dpc # "idle" /\ pc \in {"read", "parse", "loop"}) =>
              pc' \notin {"stopped", "cancelled"}
      ]_vars

\* --------------------------------------------------------------- C14
\* C14: during a dispatch every index at which the request buffer is read
\* (tag, count, opcode, the address read ahead of the opcode switch, value)
\* is below MAX_IPC_SIZE, and the reply buffer is written only below
\* MAX_IPC_RETURN_SIZE (results end at ret_cnt, the status is at 0).
C14_IndicesInBounds ==
    /\ \A x \in touched : x >= 0 /\ x < MAX_IPC_SIZE
    /\ ret_cnt <= MAX_IPC_RETURN_SIZE
    /\ \A j \in 1..Len(ops) :
          ops[j].kind = "read" => ReplyOffset(j) + ops[j].w <= MAX_IPC_RETURN_SIZE

\* --------------------------------------------------------------- C15
\* C15: during one dispatch buf_cnt and ret_cnt never decrease; a processed
\* sub-command advances buf_cnt by 5 (read) or 5 + N/8 (Write-N) and
\* ret_cnt by N/8 (Read-N) or 0 (write), and leaves both within the
\* capacities of their buffers.
C15_CursorsAdvance ==
    [][ (pc \in {"parse", "loop"}) =>
          /\ buf_cnt' >= buf_cnt
          /\ ret_cnt' >= ret_cnt
          /\ (pc = "loop" /\ i' = i + 1) =>
                /\ buf_cnt < MAX_IPC_SIZE
                /\ Len(ops') = Len(ops) + 1
                /\ LET done == ops'[Len(ops')]
                       op == m_ipc_buffer[buf_cnt]
                       n == done.w
                   IN  /\ n \in {1, 2, 4, 8}
                       /\ buf_cnt' = buf_cnt + (IF done.kind = "write" THEN 5 + n ELSE 5)
                       /\ ret_cnt' = ret_cnt + (IF done.kind = "read" THEN n ELSE 0)
                       /\ op # Indet =>
                             /\ op \in ValidOps
                             /\ WireWidth(op) = n
                             /\ (op \in WriteOps) = (done.kind = "write")
                /\ buf_cnt' <= MAX_IPC_SIZE
                /\ ret_cnt' <= MAX_IPC_RETURN_SIZE
      ]_vars

\* A Write32 and then a Read16 of a batch have been processed.
C15_Witness ==
    /\ pc = "loop"
    /\ i = 2
    /\ Len(ops) = 2
    /\ ops[1].kind = "write" /\ ops[1].w = 4
    /\ ops[2].kind = "read" /\ ops[2].w = 2
    /\ buf_cnt = 3 + 9 + 5
    /\ ret_cnt = 1 + 2

\* --------------------------------------------------------------- C16
\* C16: a sub-command with a valid opcode is executed if and only if
\* buf_cnt + its request bytes <= MAX_IPC_SIZE and ret_cnt + its reply bytes
\* <= MAX_IPC_RETURN_SIZE (equality included); otherwise the dispatch
\* aborts with the 1-byte failure and the sub-command is not executed.
C16_BoundsCheckExact ==
    [][ (/\ pc = "loop" /\ i < batch
         /\ buf_cnt < MAX_IPC_SIZE
         /\ m_ipc_buffer[buf_cnt] \in ValidOps) =>
          LET op == m_ipc_buffer[buf_cnt]
              fits == /\ buf_cnt + WireLen(op) <= MAX_IPC_SIZE
                      /\ ret_cnt + (IF op \in ReadOps THEN WireWidth(op) ELSE 0)
                            <= MAX_IPC_RETURN_SIZE
          IN  /\ fits => /\ pc' = "loop" /\ i' = i + 1
                         /\ Len(ops') = Len(ops) + 1
                         /\ ops'[Len(ops')].w = WireWidth(op)
              /\ ~fits => /\ pc' = "write"
                          /\ ops' = ops /\ mem' = mem
                          /\ m_ret_buffer'[0] = IPC_FAIL /\ res_size' = 1
      ]_vars

\* The last byte of the third sub-command was the last byte of the request
\* buffer, the result of the second read ended on the last byte of the reply
\* buffer, and the batch succeeded.
C16_Witness ==
    /\ Succeeded
    /\ vm_active = "yes"
    /\ batch = 3
    /\ Len(ops) = 3
    /\ buf_cnt = MAX_IPC_SIZE
    /\ nread = MAX_IPC_SIZE
    /\ ret_cnt = MAX_IPC_RETURN_SIZE
    /\ res_size = MAX_IPC_RETURN_SIZE

\* --------------------------------------------------------------- C17
\* The request buffer a run without earlier connections would hold after the
\* same read: the received bytes over the buffer as it was allocated.
FreshBuffer ==
    [x \in DOMAIN m_ipc_buffer |-> IF x < nread THEN m_ipc_buffer[x] ELSE Indet]

\* C17: the outcome of a connection depends on the bytes it delivered and on
\* the memory only: no request byte that an earlier connection left behind
\* is read, and the reply and the memory primitives invoked are those of
\* the run in which the same bytes arrive, on the same memory, on the first
\* connection.
C17_HistoryIndependent ==
    (Returned /\ vm_active = "yes") =>
        /\ \A x \in touched : ~(x >= nread /\ x < stale)
        /\ LET ref == Ref(FreshBuffer, mem0)
           IN  ref.why # "indeterminate" =>
               /\ Invoked = ref.cmds
               /\ m_ret_buffer[0] = (IF ref.ok THEN IPC_OK ELSE IPC_FAIL)
               /\ res_size = (IF ref.ok THEN 1 + Len(ref.out) ELSE 1)
               /\ ref.ok => Slice(m_ret_buffer, 1, Len(ref.out)) = ref.out

\* --------------------------------------------------------------- C18
\* C18: the worker never reads into, dispatches on or replies from a buffer
\* the destructor has released, and never uses a socket the destructor has
\* closed: the destructor closes and releases only once the worker is no
\* longer running.
C18_ReleaseAfterWorkerStopped ==
    /\ pc = "read" => ("ipc" \notin freed /\ m_msgsock \in open)
    /\ pc \in {"parse", "loop"} => freed = {}
    /\ pc = "write" => ("ret" \notin freed /\ m_msgsock \in open)
    /\ dpc \in {"sock_closed", "msgsock_closed", "ret_freed", "ipc_freed", "done"}
          => pc \in {"unstarted", "stopped", "cancelled"}

\* --------------------------------------------------------------- C19
\* C19: a request that begins with the MultiCommand tag and a count of 0
\* runs no sub-command: the reply is IPC_OK with length exactly 1, no memory
\* primitive is invoked, and no byte after the 3-byte header is read.
C19_EmptyBatch ==
    (/\ Returned /\ vm_active = "yes"
     /\ m_ipc_buffer[0] = MsgMultiCommand
     /\ m_ipc_buffer[1] = 0 /\ m_ipc_buffer[2] = 0) =>
        /\ Succeeded
        /\ res_size = 1
        /\ ops = <<>>
        /\ mem = mem0
        /\ i = 0
        /\ touched = {0, 1, 2}
        /\ pc = "close" => sent = <<IPC_OK>>

\* A batch header with count 0 came with a well-formed Write8 after it.
C19_Witness ==
    /\ pc = "close"
    /\ vm_active = "yes"
    /\ Received = Hdr(0) \o WrCmd(MsgWrite8, 17)
    /\ sent = <<IPC_OK>>
    /\ mem = mem0

\* --------------------------------------------------------------- C20
\* C20: the MultiCommand tag is a header only as byte 0 of the request (a
\* request that does not begin with it is a batch of 1); found where a
\* sub-command's opcode is expected it is an invalid opcode: the dispatch
\* aborts with the 1-byte failure, the batch count and the cursors stay as
\* they were and nothing is invoked.
C20_NoNestedBatch ==
    [][ /\ (pc = "parse" /\ pc' = "loop" /\ m_ipc_buffer[0] \in Byte \ {MsgMultiCommand}) =>
              (batch' = 1 /\ buf_cnt' = 0)
        /\ (/\ pc = "loop" /\ i < batch
            /\ buf_cnt < MAX_IPC_SIZE
            /\ m_ipc_buffer[buf_cnt] = MsgMultiCommand) =>
              /\ pc' = "write"
              /\ m_ret_buffer'[0] = IPC_FAIL /\ res_size' = 1
              /\ batch' = batch /\ buf_cnt' = buf_cnt /\ i' = i
              /\ ops' = ops /\ mem' = mem
      ]_vars

\* The second sub-command of a batch of 2 began with the MultiCommand tag:
\* the write before it was invoked, then the dispatch failed.
C20_Witness ==
    /\ Failed
    /\ vm_active = "yes"
    /\ pc = "close"
    /\ m_ipc_buffer[0] = MsgMultiCommand
    /\ batch = 2
    /\ i = 1
    /\ Len(ops) = 1 /\ ops[1].kind = "write"
    /\ m_ipc_buffer[buf_cnt] = MsgMultiCommand
    /\ sent = <<IPC_FAIL>>

====
